---- MODULE Spec2Model ----
(***************************************************************************)
(* Model of the LPS28 register driver (src/lps28.py).                      *)
(*                                                                         *)
(* State: the device's configuration registers (bytes, by address), the    *)
(* driver instance's lifecycle and its one cached field _pressure_scale,   *)
(* and `last`, the observation of the most recent call: operation, input   *)
(* (the argument, or the sample a measurement read is given), result and   *)
(* the bus transactions it issued.                                         *)
(*                                                                         *)
(* The measurement registers (PRESS_OUT, TEMP_OUT, INT_SOURCE) are         *)
(* refreshed by the device between reads, so a read of them returns a      *)
(* sample chosen by the environment at the time of the read.               *)
(*                                                                         *)
(* Numbers that Python computes with true division are exact rationals     *)
(* here: records [num, den] in lowest terms with den > 0.  A threshold     *)
(* argument also carries its Python type, [num, den, float]: an int has    *)
(* den = 1 and float = FALSE, and a product with a float is a float.       *)
(***************************************************************************)
EXTENDS Integers, Sequences, FiniteSets, TLC

VARIABLES inst, regs, pressure_scale, last

vars == <<inst, regs, pressure_scale, last>>

-----------------------------------------------------------------------------
(* Bounds of the model *)

\* setter arguments are drawn from -1 .. MaxArg
MaxArg == 9
\* boolean-like setter arguments are drawn from -1 .. MaxFlagArg
MaxFlagArg == 2
\* raw pressure samples lie within MaxRaw of 0, of 2^23 and of 2^24 - 1
MaxRaw == 2

-----------------------------------------------------------------------------
(* Register addresses *)

REG_INTERRUPT_CFG == 11
REG_THS_P_L == 12
REG_THS_P_H == 13
REG_WHOAMI == 15
REG_CTRL_REG1 == 16
REG_CTRL_REG2 == 17
REG_INT_SOURCE == 36
REG_PRESS_OUT_XL == 40
REG_TEMP_OUT_L == 43

\* the identity byte __init__ expects (0xB4)
LPS28_ID == 180

ConfigRegs == {REG_INTERRUPT_CFG, REG_THS_P_L, REG_THS_P_H, REG_WHOAMI,
               REG_CTRL_REG1, REG_CTRL_REG2}

(* Data Rate *)
ONE_SHOT == 0
RATE_1_HZ == 1
RATE_4_HZ == 2
RATE_10_HZ == 3
RATE_25_HZ == 4
RATE_50_HZ == 5
RATE_75_HZ == 6
RATE_100_HZ == 7
RATE_200_HZ == 8
data_rate_values == {ONE_SHOT, RATE_1_HZ, RATE_4_HZ, RATE_10_HZ, RATE_25_HZ,
                     RATE_50_HZ, RATE_75_HZ, RATE_100_HZ, RATE_200_HZ}

(* Resolution *)
RES_4 == 0
RES_8 == 1
RES_16 == 2
RES_32 == 3
RES_64 == 4
RES_128 == 5
RES_512 == 7
resolution_values == {RES_4, RES_8, RES_16, RES_32, RES_64, RES_128, RES_512}

FULL_SCALE == 1
NORMAL == 0
full_scale_values == {NORMAL, FULL_SCALE}

-----------------------------------------------------------------------------
(* Arithmetic helpers *)

Pow2(n) == 2 ^ n

Abs(x) == IF x < 0 THEN -x ELSE x

RECURSIVE GCD(_, _)
GCD(a, b) == IF b = 0 THEN a ELSE GCD(b, a % b)

\* Python's a / b on numbers, as an exact rational in lowest terms (b > 0)
Ratio(a, b) ==
    LET g == GCD(Abs(a), b)
    IN  [num |-> a \div g, den |-> b \div g]

\* a Python int, and a Python float of value n / d
IntValue(n) == [num |-> n, den |-> 1, float |-> FALSE]
FloatValue(n, d) == [num |-> Ratio(n, d).num, den |-> Ratio(n, d).den, float |-> TRUE]

\* Python's x * k for a number x and an int k: a float stays a float
RatioTimes(x, k) ==
    LET q == Ratio(x.num * k, x.den)
    IN  [num |-> q.num, den |-> q.den, float |-> x.float]

RECURSIVE BitAnd(_, _)
BitAnd(a, b) ==
    IF a = 0 \/ b = 0 THEN 0
    ELSE (a % 2) * (b % 2) + 2 * BitAnd(a \div 2, b \div 2)

RECURSIVE BitOr(_, _)
BitOr(a, b) ==
    IF a = 0 THEN b
    ELSE IF b = 0 THEN a
    ELSE (IF a % 2 = 1 \/ b % 2 = 1 THEN 1 ELSE 0) + 2 * BitOr(a \div 2, b \div 2)

\* a & ~mask on one byte
BitClear(a, mask) == a - BitAnd(a, mask)

-----------------------------------------------------------------------------
(* Results and bus transactions *)

Ok(v) == [kind |-> "ok", val |-> v]
Raise(e) == [kind |-> e, val |-> 0]

\* a read is recorded with the number of bytes read, a write with the bytes written
BusRead(addr, n) == [rw |-> "r", addr |-> addr, data |-> n, ok |-> TRUE]
BusWrite(addr, data) == [rw |-> "w", addr |-> addr, data |-> data, ok |-> TRUE]
BusFail(rw, addr) == [rw |-> rw, addr |-> addr, data |-> 0, ok |-> FALSE]

\* what a call leaves behind: registers, cached scale, result, transactions
Outcome(r, s, res, bus) == [regs |-> r, scale |-> s, result |-> res, bus |-> bus]

-----------------------------------------------------------------------------
(* Register descriptors: the read and read-modify-write sequences behind   *)
(* the class attributes _reg_* (RWBits, RWBit, UnaryStruct, ROBits).       *)
(* io names the transport's behaviour during the call: "ok", or the        *)
(* transaction that fails ("read_error", "write_error"); a failed          *)
(* transaction transfers nothing and raises OSError.                       *)

BitMask(width, lowest) == (Pow2(width) - 1) * Pow2(lowest)

\* RWBits.__get__ on a one-byte register
RWBits_get(r, width, addr, lowest) ==
    BitAnd(r[addr], BitMask(width, lowest)) \div Pow2(lowest)

\* mutant: the field is not cleared before the new value is or-ed in
RWBits_merge_no_clear(reg, width, lowest, value) ==
    BitOr(reg, (value * Pow2(lowest)) % 256)

\* the byte RWBits.__set__ writes back: (reg & ~mask) | (value << lowest), & 0xFF
RWBits_merge(reg, width, lowest, value) ==
    BitOr(BitClear(reg, BitMask(width, lowest)), (value * Pow2(lowest)) % 256)

\* RWBit.__get__ : bool(reg & mask)
RWBit_get(r, addr, bit) == BitAnd(r[addr], Pow2(bit)) # 0

\* the byte RWBit.__set__ writes back: reg | mask if value else reg & ~mask
RWBit_merge(reg, bit, value) ==
    IF value # 0 THEN BitOr(reg, Pow2(bit)) ELSE BitClear(reg, Pow2(bit))

\* one read of register addr
ReadReg(r, addr, io) ==
    IF io = "read_error"
    THEN [ok |-> FALSE, bus |-> <<BusFail("r", addr)>>]
    ELSE [ok |-> TRUE, bus |-> <<BusRead(addr, 1)>>]

\* read-modify-write of register addr, writing back byte new
WriteBack(r, addr, new, io) ==
    IF io = "read_error"
    THEN [ok |-> FALSE, regs |-> r, bus |-> <<BusFail("r", addr)>>]
    ELSE IF io = "write_error"
    THEN [ok |-> FALSE, regs |-> r,
          bus |-> <<BusRead(addr, 1), BusFail("w", addr)>>]
    ELSE [ok |-> TRUE, regs |-> [r EXCEPT ![addr] = new],
          bus |-> <<BusRead(addr, 1), BusWrite(addr, <<new>>)>>]

\* little-endian value of a byte sequence
RECURSIVE LittleEndian(_)
LittleEndian(bytes) ==
    IF bytes = <<>> THEN 0 ELSE Head(bytes) + 256 * LittleEndian(Tail(bytes))

\* the n bytes of v, least significant first
RECURSIVE ToBytes(_, _)
ToBytes(v, n) == IF n = 0 THEN <<>> ELSE <<v % 256>> \o ToBytes(v \div 256, n - 1)

-----------------------------------------------------------------------------
(* LPS28._twos_comp *)

twos_comp(val, bits) ==
    IF BitAnd(val, Pow2(bits - 1)) # 0 THEN val - Pow2(bits) ELSE val

-----------------------------------------------------------------------------
(* LPS28.__init__ : identity check, then the default data rate, then the   *)
(* cached scale.  An exception leaves no instance.  (I2CDevice's probe of  *)
(* the address, which addresses no register, is not a transaction here.)   *)

\* mutant: the default data rate is written before the identity is compared
init_write_first(r, io) ==
    IF io = "id_read_error"
    THEN Outcome(r, 0, Raise("OSError"), <<BusFail("r", REG_WHOAMI)>>)
    ELSE LET idbus == <<BusRead(REG_WHOAMI, 1)>>
             w == WriteBack(r, REG_CTRL_REG1,
                      RWBits_merge(r[REG_CTRL_REG1], 4, 3, RATE_10_HZ), io) IN
         IF ~w.ok
         THEN Outcome(r, 0, Raise("OSError"), idbus \o w.bus)
         ELSE IF r[REG_WHOAMI] # LPS28_ID
         THEN Outcome(w.regs, 0, Raise("RuntimeError"), idbus \o w.bus)
         ELSE Outcome(w.regs, 4096, Ok(0), idbus \o w.bus)

init(r, io) ==
    IF io = "id_read_error"
    THEN Outcome(r, 0, Raise("OSError"), <<BusFail("r", REG_WHOAMI)>>)
    ELSE LET idbus == <<BusRead(REG_WHOAMI, 1)>> IN
         IF r[REG_WHOAMI] # LPS28_ID
         THEN Outcome(r, 0, Raise("RuntimeError"), idbus)
         ELSE LET w == WriteBack(r, REG_CTRL_REG1,
                           RWBits_merge(r[REG_CTRL_REG1], 4, 3, RATE_10_HZ), io) IN
              IF ~w.ok
              THEN Outcome(r, 0, Raise("OSError"), idbus \o w.bus)
              ELSE Outcome(w.regs, 4096, Ok(0), idbus \o w.bus)

-----------------------------------------------------------------------------
(* data_rate *)

data_rate_names == <<"ONE_SHOT", "RATE_1_HZ", "RATE_4_HZ", "RATE_10_HZ",
                     "RATE_25_HZ", "RATE_50_HZ", "RATE_75_HZ", "RATE_100_HZ",
                     "RATE_200_HZ">>

\* values[i] on a Python tuple, for i >= 0
TupleIndex(values, i) ==
    IF i < Len(values) THEN Ok(values[i + 1]) ELSE Raise("IndexError")

\* mutant: the field is read three bits wide
data_rate_get_3_bits(r, s, io) ==
    LET rd == ReadReg(r, REG_CTRL_REG1, io) IN
    IF ~rd.ok THEN Outcome(r, s, Raise("OSError"), rd.bus)
    ELSE Outcome(r, s, TupleIndex(data_rate_names,
                                  RWBits_get(r, 3, REG_CTRL_REG1, 3)), rd.bus)

data_rate_get(r, s, io) ==
    LET rd == ReadReg(r, REG_CTRL_REG1, io) IN
    IF ~rd.ok THEN Outcome(r, s, Raise("OSError"), rd.bus)
    ELSE Outcome(r, s, TupleIndex(data_rate_names,
                                  RWBits_get(r, 4, REG_CTRL_REG1, 3)), rd.bus)

data_rate_set(r, s, value, io) ==
    IF value \notin data_rate_values
    THEN Outcome(r, s, Raise("ValueError"), <<>>)
    ELSE LET w == WriteBack(r, REG_CTRL_REG1,
                      RWBits_merge(r[REG_CTRL_REG1], 4, 3, value), io) IN
         Outcome(w.regs, s, IF w.ok THEN Ok(0) ELSE Raise("OSError"), w.bus)

-----------------------------------------------------------------------------
(* resolution *)

resolution_names == <<"RES_4", "RES_8", "RES_16", "RES_32", "RES_64",
                      "RES_128", "RES_512">>

resolution_get(r, s, io) ==
    LET rd == ReadReg(r, REG_CTRL_REG1, io) IN
    IF ~rd.ok THEN Outcome(r, s, Raise("OSError"), rd.bus)
    ELSE Outcome(r, s, TupleIndex(resolution_names,
                                  RWBits_get(r, 3, REG_CTRL_REG1, 0)), rd.bus)

\* mutant: the value is written without the membership test
resolution_set_unchecked(r, s, value, io) ==
    LET w == WriteBack(r, REG_CTRL_REG1,
                 RWBits_merge(r[REG_CTRL_REG1], 3, 0, value), io) IN
    Outcome(w.regs, s, IF w.ok THEN Ok(0) ELSE Raise("OSError"), w.bus)

resolution_set(r, s, value, io) ==
    IF value \notin resolution_values
    THEN Outcome(r, s, Raise("ValueError"), <<>>)
    ELSE LET w == WriteBack(r, REG_CTRL_REG1,
                      RWBits_merge(r[REG_CTRL_REG1], 3, 0, value), io) IN
         Outcome(w.regs, s, IF w.ok THEN Ok(0) ELSE Raise("OSError"), w.bus)

-----------------------------------------------------------------------------
(* full_scale *)

full_scale_names == <<"NORMAL", "FULL_SCALE">>

pressure_scale_options == <<4096, 2048>>

BoolIndex(b) == IF b THEN 1 ELSE 0

full_scale_get(r, s, io) ==
    LET rd == ReadReg(r, REG_CTRL_REG2, io) IN
    IF ~rd.ok THEN Outcome(r, s, Raise("OSError"), rd.bus)
    ELSE Outcome(r, s, TupleIndex(full_scale_names,
                                  BoolIndex(RWBit_get(r, REG_CTRL_REG2, 6))), rd.bus)

\* the cached scale is assigned first, the register written second
full_scale_set(r, s, value, io) ==
    IF value \notin full_scale_values
    THEN Outcome(r, s, Raise("ValueError"), <<>>)
    ELSE LET s2 == pressure_scale_options[value + 1]
             w == WriteBack(r, REG_CTRL_REG2,
                      RWBit_merge(r[REG_CTRL_REG2], 6, value), io) IN
         Outcome(w.regs, s2, IF w.ok THEN Ok(0) ELSE Raise("OSError"), w.bus)

-----------------------------------------------------------------------------
(* pressure and temperature: sample is the content of the output registers *)
(* at the time of the read                                                 *)

\* ROBits(24, _REG_PRESS_OUT_XL, 0, 3).__get__ : three bytes, lsb first
raw_pressure_get(bytes) ==
    BitAnd(LittleEndian(bytes), BitMask(24, 0)) \div Pow2(0)

pressure_get(r, s, sample, io) ==
    IF io = "read_error"
    THEN Outcome(r, s, Raise("OSError"), <<BusFail("r", REG_PRESS_OUT_XL)>>)
    ELSE Outcome(r, s, Ok(Ratio(twos_comp(raw_pressure_get(sample), 24), s)),
                 <<BusRead(REG_PRESS_OUT_XL, 3)>>)

\* struct.unpack("<h", bytes)
unpack_h(bytes) ==
    LET u == LittleEndian(bytes) IN IF u >= 32768 THEN u - 65536 ELSE u

temperature_get(r, s, sample, io) ==
    IF io = "read_error"
    THEN Outcome(r, s, Raise("OSError"), <<BusFail("r", REG_TEMP_OUT_L)>>)
    ELSE Outcome(r, s, Ok(Ratio(unpack_h(sample), 100)),
                 <<BusRead(REG_TEMP_OUT_L, 2)>>)

-----------------------------------------------------------------------------
(* threshold enables (INTERRUPT_CFG) and threshold flags (INT_SOURCE) *)

threshold_enabled_get(r, s, bit, io) ==
    LET rd == ReadReg(r, REG_INTERRUPT_CFG, io) IN
    IF ~rd.ok THEN Outcome(r, s, Raise("OSError"), rd.bus)
    ELSE Outcome(r, s, Ok(RWBit_get(r, REG_INTERRUPT_CFG, bit)), rd.bus)

\* value not in (True, False): Python takes 1 for True and 0 for False
threshold_enabled_set(r, s, bit, value, io) ==
    IF value \notin {1, 0}
    THEN Outcome(r, s, Raise("ValueError"), <<>>)
    ELSE LET w == WriteBack(r, REG_INTERRUPT_CFG,
                      RWBit_merge(r[REG_INTERRUPT_CFG], bit, value), io) IN
         Outcome(w.regs, s, IF w.ok THEN Ok(0) ELSE Raise("OSError"), w.bus)

high_threshold_enabled_get(r, s, io) == threshold_enabled_get(r, s, 0, io)

high_threshold_enabled_set(r, s, value, io) == threshold_enabled_set(r, s, 0, value, io)

low_threshold_enabled_get(r, s, io) == threshold_enabled_get(r, s, 1, io)

low_threshold_enabled_set(r, s, value, io) == threshold_enabled_set(r, s, 1, value, io)

threshold_exceeded_get(r, s, bit, sample, io) ==
    IF io = "read_error"
    THEN Outcome(r, s, Raise("OSError"), <<BusFail("r", REG_INT_SOURCE)>>)
    ELSE Outcome(r, s, Ok(BitAnd(sample, Pow2(bit)) # 0),
                 <<BusRead(REG_INT_SOURCE, 1)>>)

high_threshold_exceeded_get(r, s, sample, io) == threshold_exceeded_get(r, s, 0, sample, io)

low_threshold_exceeded_get(r, s, sample, io) == threshold_exceeded_get(r, s, 1, sample, io)

-----------------------------------------------------------------------------
(* pressure_threshold *)

threshold_options == <<16, 8>>

\* mutant: the divisor of normal mode whatever the full-scale bit
threshold_divisor_normal(r) == threshold_options[1]

\* the divisor for the full-scale bit the device holds now
threshold_divisor(r) == threshold_options[BoolIndex(RWBit_get(r, REG_CTRL_REG2, 6)) + 1]

\* the threshold is read first (two bytes), the full-scale bit second;
\* either read may fail ("read_error" the first, "second_read_error" the second)
pressure_threshold_get(r, s, io) ==
    LET raw == LittleEndian(<<r[REG_THS_P_L], r[REG_THS_P_H]>>) IN
    IF io = "read_error"
    THEN Outcome(r, s, Raise("OSError"), <<BusFail("r", REG_THS_P_L)>>)
    ELSE IF io = "second_read_error"
    THEN Outcome(r, s, Raise("OSError"),
                 <<BusRead(REG_THS_P_L, 2), BusFail("r", REG_CTRL_REG2)>>)
    ELSE Outcome(r, s, Ok(Ratio(raw, threshold_divisor(r))),
                 <<BusRead(REG_THS_P_L, 2), BusRead(REG_CTRL_REG2, 1)>>)

\* struct.pack_into("<H", ...) of x decides on the type of x: a float is
\* refused whatever its value (struct.error by the strict packer of
\* CPython, TypeError by the truncating one of MicroPython); an int outside
\* 0..65535 is refused by the strict packer and cut to its low 16 bits by
\* the truncating one (packer names which)
pack_H(x, packer) ==
    IF x.float
    THEN Raise(IF packer = "strict" THEN "struct.error" ELSE "TypeError")
    ELSE IF x.num \notin 0 .. 65535 /\ packer = "strict" THEN Raise("struct.error")
    ELSE Ok(ToBytes(x.num % 65536, 2))

\* value * options[self._reg_full_scale], packed and written in one write
pressure_threshold_set(r, s, value, packer, io) ==
    LET fs == ReadReg(r, REG_CTRL_REG2, io) IN
    IF ~fs.ok THEN Outcome(r, s, Raise("OSError"), fs.bus)
    ELSE LET packed == pack_H(RatioTimes(value, threshold_divisor(r)), packer) IN
         IF packed.kind # "ok" THEN Outcome(r, s, packed, fs.bus)
         ELSE IF io = "write_error"
         THEN Outcome(r, s, Raise("OSError"), fs.bus \o <<BusFail("w", REG_THS_P_L)>>)
         ELSE Outcome([r EXCEPT ![REG_THS_P_L] = packed.val[1],
                                ![REG_THS_P_H] = packed.val[2]],
                      s, Ok(0), fs.bus \o <<BusWrite(REG_THS_P_L, packed.val)>>)

-----------------------------------------------------------------------------
(* Inputs *)

Args == -1 .. MaxArg
FlagArgs == -1 .. MaxFlagArg

ReadIO == {"ok", "read_error"}
ThresholdReadIO == {"ok", "read_error", "second_read_error"}
WriteIO == {"ok", "read_error", "write_error"}
InitIO == {"ok", "id_read_error", "read_error", "write_error"}
Packers == {"strict", "truncate"}

\* raw 24-bit pressure samples around 0, the sign bit and the top
RawSamples ==
    (0 .. MaxRaw) \cup {4096}
    \cup (Pow2(23) - MaxRaw .. Pow2(23) + MaxRaw)
    \cup (Pow2(24) - 1 - MaxRaw .. Pow2(24) - 1)

\* raw 16-bit temperature samples: 0, 2500, -100, the extremes
TempSamples == {0, 2500, 65436, 32767, 32768}

IntSourceSamples == 0 .. 3

\* thresholds in hPa: the ints -1, 0, 10, 4095, 4096 and 8192, and the
\* floats 0.0, 0.0625, 0.125, 10.0 and 4095.9375
ThresholdArgs ==
    {IntValue(n) : n \in {-1, 0, 10, 4095, 4096, 8192}}
    \cup {FloatValue(n, 16) : n \in {0, 1, 2, 160, 65535}}

(* Register contents before the driver is constructed *)
PriorWhoAmI == 0 .. 255
PriorCtrl1 == {b.hi * 128 + dr * 8 + b.res :
                 dr \in 0 .. 15, b \in {[hi |-> 0, res |-> 0], [hi |-> 1, res |-> 6]}}
PriorCtrl2 == {18, 82}
PriorIntCfg == {166}
PriorThs == {<<52, 18>>}

-----------------------------------------------------------------------------
(* The state machine *)

NoCall == [op |-> "none", arg |-> 0, result |-> Ok(0), bus |-> <<>>]

Init ==
    /\ inst = "none"
    /\ pressure_scale = 0
    /\ last = NoCall
    /\ \E id \in PriorWhoAmI, c1 \in PriorCtrl1, c2 \in PriorCtrl2,
          ic \in PriorIntCfg, th \in PriorThs :
         regs = [a \in ConfigRegs |->
                   CASE a = REG_WHOAMI -> id
                     [] a = REG_CTRL_REG1 -> c1
                     [] a = REG_CTRL_REG2 -> c2
                     [] a = REG_INTERRUPT_CFG -> ic
                     [] a = REG_THS_P_L -> th[1]
                     [] a = REG_THS_P_H -> th[2]]

\* a call on the live instance leaves out behind
Call(op, arg, out) ==
    /\ inst = "live"
    /\ regs' = out.regs
    /\ pressure_scale' = out.scale
    /\ last' = [op |-> op, arg |-> arg, result |-> out.result, bus |-> out.bus]
    /\ UNCHANGED inst

Construct ==
    /\ inst = "none"
    /\ \E io \in InitIO :
         LET out == init(regs, io) IN
         /\ inst' = IF out.result.kind = "ok" THEN "live" ELSE "failed"
         /\ regs' = out.regs
         /\ pressure_scale' = out.scale
         /\ last' = [op |-> "init", arg |-> 0, result |-> out.result, bus |-> out.bus]

GetDataRate ==
    \E io \in ReadIO : Call("data_rate_get", 0, data_rate_get(regs, pressure_scale, io))

SetDataRate ==
    \E v \in Args, io \in WriteIO :
        Call("data_rate_set", v, data_rate_set(regs, pressure_scale, v, io))

GetResolution ==
    \E io \in ReadIO : Call("resolution_get", 0, resolution_get(regs, pressure_scale, io))

SetResolution ==
    \E v \in Args, io \in WriteIO :
        Call("resolution_set", v, resolution_set(regs, pressure_scale, v, io))

GetFullScale ==
    \E io \in ReadIO : Call("full_scale_get", 0, full_scale_get(regs, pressure_scale, io))

SetFullScale ==
    \E v \in FlagArgs, io \in WriteIO :
        Call("full_scale_set", v, full_scale_set(regs, pressure_scale, v, io))

GetPressure ==
    \E raw \in RawSamples, io \in ReadIO :
        Call("pressure_get", ToBytes(raw, 3),
             pressure_get(regs, pressure_scale, ToBytes(raw, 3), io))

GetTemperature ==
    \E raw \in TempSamples, io \in ReadIO :
        Call("temperature_get", ToBytes(raw, 2),
             temperature_get(regs, pressure_scale, ToBytes(raw, 2), io))

GetHighThresholdEnabled ==
    \E io \in ReadIO :
        Call("high_threshold_enabled_get", 0,
             high_threshold_enabled_get(regs, pressure_scale, io))

SetHighThresholdEnabled ==
    \E v \in FlagArgs, io \in WriteIO :
        Call("high_threshold_enabled_set", v,
             high_threshold_enabled_set(regs, pressure_scale, v, io))

GetLowThresholdEnabled ==
    \E io \in ReadIO :
        Call("low_threshold_enabled_get", 0,
             low_threshold_enabled_get(regs, pressure_scale, io))

SetLowThresholdEnabled ==
    \E v \in FlagArgs, io \in WriteIO :
        Call("low_threshold_enabled_set", v,
             low_threshold_enabled_set(regs, pressure_scale, v, io))

GetHighThresholdExceeded ==
    \E src \in IntSourceSamples, io \in ReadIO :
        Call("high_threshold_exceeded_get", src,
             high_threshold_exceeded_get(regs, pressure_scale, src, io))

GetLowThresholdExceeded ==
    \E src \in IntSourceSamples, io \in ReadIO :
        Call("low_threshold_exceeded_get", src,
             low_threshold_exceeded_get(regs, pressure_scale, src, io))

GetPressureThreshold ==
    \E io \in ThresholdReadIO :
        Call("pressure_threshold_get", 0,
             pressure_threshold_get(regs, pressure_scale, io))

SetPressureThreshold ==
    \E t \in ThresholdArgs, packer \in Packers, io \in WriteIO :
        Call("pressure_threshold_set", t,
             pressure_threshold_set(regs, pressure_scale, t, packer, io))

Next ==
    \/ Construct
    \/ GetDataRate
    \/ SetDataRate
    \/ GetResolution
    \/ SetResolution
    \/ GetFullScale
    \/ SetFullScale
    \/ GetPressure
    \/ GetTemperature
    \/ GetHighThresholdEnabled
    \/ SetHighThresholdEnabled
    \/ GetLowThresholdEnabled
    \/ SetLowThresholdEnabled
    \/ GetHighThresholdExceeded
    \/ GetLowThresholdExceeded
    \/ GetPressureThreshold
    \/ SetPressureThreshold

Spec == Init /\ [][Next]_vars

(* The accessors of different registers commute: each reads and writes its *)
(* own register (and, for full_scale, the cached scale).  The claims are   *)
(* checked under the restrictions of Spec to the calls on the registers a  *)
(* claim is about, from the same initial states.                           *)

\* CTRL_REG1: construction, data rate and resolution
NextConfig ==
    \/ Construct
    \/ GetDataRate
    \/ SetDataRate
    \/ GetResolution
    \/ SetResolution

SpecConfig == Init /\ [][NextConfig]_vars

\* CTRL_REG2, the cached scale, the measurements and the threshold
NextScale ==
    \/ Construct
    \/ GetFullScale
    \/ SetFullScale
    \/ GetPressure
    \/ GetTemperature
    \/ GetPressureThreshold
    \/ SetPressureThreshold

SpecScale == Init /\ [][NextScale]_vars

\* every validating setter, and the threshold enables
NextSetters ==
    \/ Construct
    \/ SetDataRate
    \/ SetResolution
    \/ SetFullScale
    \/ GetHighThresholdEnabled
    \/ SetHighThresholdEnabled
    \/ GetLowThresholdEnabled
    \/ SetLowThresholdEnabled

SpecSetters == Init /\ [][NextSetters]_vars

-----------------------------------------------------------------------------
(* Fields of the device registers, by arithmetic on the register byte *)

\* CTRL_REG2 bit 6
FullScaleBit(r) == (r[REG_CTRL_REG2] \div 64) % 2

\* CTRL_REG1 bits 6:3
DataRateField(r) == (r[REG_CTRL_REG1] \div 8) % 16

\* CTRL_REG1 bits 2:0
ResolutionField(r) == r[REG_CTRL_REG1] % 8

\* THS_P_L / THS_P_H as one little-endian number
ThresholdRaw(r) == r[REG_THS_P_L] + 256 * r[REG_THS_P_H]

\* the transactions of the last call that wrote to the device
Writes(call) == {i \in 1 .. Len(call.bus) : call.bus[i].rw = "w"}

\* no transaction of the call failed
BusOk(call) == \A i \in 1 .. Len(call.bus) : call.bus[i].ok

-----------------------------------------------------------------------------
(* C1: on a live instance the cached pressure scale is 4096 whenever the   *)
(* device's full-scale bit is 0 and 2048 whenever it is 1.                 *)
(* Violated: __init__ sets the scale to 4096 without reading or writing    *)
(* the full-scale bit, so a device left in extended mode gives a live      *)
(* instance with bit 1 and scale 4096.                                     *)
C1_ScaleMatchesFullScaleBit ==
    inst = "live" =>
        pressure_scale = (IF FullScaleBit(regs) = 0 THEN 4096 ELSE 2048)

(* C2: a full_scale set ends with the full-scale bit and the cached scale  *)
(* both holding the new mode, or, when the value is rejected or the bus    *)
(* fails, both unchanged.                                                  *)
(* Violated: the setter assigns the cached scale before the register       *)
(* write, so a failed write leaves the new scale with the old bit.         *)
C2_FullScaleSetAtomic ==
    [][ (inst = "live" /\ last'.op = "full_scale_set") =>
          \/ /\ last'.result.kind = "ok"
             /\ FullScaleBit(regs') = last'.arg
             /\ pressure_scale' = (IF last'.arg = 0 THEN 4096 ELSE 2048)
          \/ /\ last'.result.kind # "ok"
             /\ regs' = regs
             /\ pressure_scale' = pressure_scale ]_vars

(* C3: construction reads the identity register first; when the identity   *)
(* byte is not 0xB4 it fails (with RuntimeError once the byte was read),   *)
(* leaves no instance and writes no device register.                       *)
C3_IdentityMismatchFails ==
    [][ (inst = "none" /\ last'.op = "init") =>
          /\ Len(last'.bus) >= 1
          /\ last'.bus[1].rw = "r"
          /\ last'.bus[1].addr = 15
          /\ regs[REG_WHOAMI] # 180 =>
               /\ inst' = "failed"
               /\ pressure_scale' = 0
               /\ Writes(last') = {}
               /\ regs' = regs
               /\ last'.bus[1].ok => last'.result.kind = "RuntimeError" ]_vars

C3_Witness ==
    /\ inst = "failed"
    /\ last.op = "init"
    /\ last.result.kind = "RuntimeError"
    /\ regs[REG_WHOAMI] = 179
    /\ DataRateField(regs) = 15

(* C4: when construction succeeds the data-rate field holds 0b0011 (not    *)
(* one-shot), the cached scale is 4096, and nothing else changed: not the  *)
(* other bits of CTRL_REG1, not any other register.  With identity 0xB4    *)
(* construction fails only on a bus failure.                               *)
C4_ConstructionDefaults ==
    [][ (inst = "none" /\ last'.op = "init") =>
          /\ (regs[REG_WHOAMI] = 180 /\ BusOk(last')) => last'.result.kind = "ok"
          /\ last'.result.kind = "ok" =>
               /\ inst' = "live"
               /\ regs[REG_WHOAMI] = 180
               /\ DataRateField(regs') = 3
               /\ DataRateField(regs') # 0
               /\ pressure_scale' = 4096
               /\ regs'[REG_CTRL_REG1] % 8 = regs[REG_CTRL_REG1] % 8
               /\ regs'[REG_CTRL_REG1] \div 128 = regs[REG_CTRL_REG1] \div 128
               /\ \A a \in ConfigRegs \ {REG_CTRL_REG1} : regs'[a] = regs[a] ]_vars

C4_Witness ==
    /\ inst = "live"
    /\ last.op = "init"
    /\ last.result.kind = "ok"
    /\ regs[REG_CTRL_REG1] = 128 + 3 * 8 + 6
    /\ pressure_scale = 4096

-----------------------------------------------------------------------------
(* The module constant a getter's result names *)

DataRateNamed(name) ==
    CASE name = "ONE_SHOT" -> ONE_SHOT
      [] name = "RATE_1_HZ" -> RATE_1_HZ
      [] name = "RATE_4_HZ" -> RATE_4_HZ
      [] name = "RATE_10_HZ" -> RATE_10_HZ
      [] name = "RATE_25_HZ" -> RATE_25_HZ
      [] name = "RATE_50_HZ" -> RATE_50_HZ
      [] name = "RATE_75_HZ" -> RATE_75_HZ
      [] name = "RATE_100_HZ" -> RATE_100_HZ
      [] name = "RATE_200_HZ" -> RATE_200_HZ

ResolutionNamed(name) ==
    CASE name = "RES_4" -> RES_4
      [] name = "RES_8" -> RES_8
      [] name = "RES_16" -> RES_16
      [] name = "RES_32" -> RES_32
      [] name = "RES_64" -> RES_64
      [] name = "RES_128" -> RES_128
      [] name = "RES_512" -> RES_512

(* C5: for every data-rate code v in 0..8, a data_rate set of v succeeds   *)
(* (bus permitting) and a data_rate get that follows it returns the name   *)
(* of the constant whose value is v.                                       *)
C5_DataRateRoundTrip ==
    [][ /\ (inst = "live" /\ last'.op = "data_rate_set" /\ last'.arg \in 0 .. 8) =>
             /\ last'.result.kind \in {"ok", "OSError"}
             /\ BusOk(last') => last'.result.kind = "ok"
        /\ (/\ last.op = "data_rate_set"
            /\ last.result.kind = "ok"
            /\ last'.op = "data_rate_get") =>
             /\ BusOk(last') => last'.result.kind = "ok"
             /\ last'.result.kind = "ok" =>
                  DataRateNamed(last'.result.val) = last.arg ]_vars

C5_Witness ==
    /\ last.op = "data_rate_get"
    /\ last.result = Ok("RATE_200_HZ")
    /\ DataRateField(regs) = 8

(* C6: for every resolution setting v (0..5 and 7), a resolution set of v  *)
(* succeeds and a resolution get that follows it succeeds and returns the  *)
(* name of the constant whose value is v.                                  *)
(* Violated: the getter indexes a 7-entry tuple with the raw field, so     *)
(* the get after setting RES_512 (0b111) raises IndexError (and a field    *)
(* of 0b110 would be reported as RES_512).                                 *)
C6_ResolutionRoundTrip ==
    [][ /\ (inst = "live" /\ last'.op = "resolution_set"
                /\ last'.arg \in {0, 1, 2, 3, 4, 5, 7}) =>
             /\ last'.result.kind \in {"ok", "OSError"}
             /\ BusOk(last') => last'.result.kind = "ok"
        /\ (/\ last.op = "resolution_set"
            /\ last.result.kind = "ok"
            /\ last'.op = "resolution_get") =>
             /\ BusOk(last') => last'.result.kind = "ok"
             /\ last'.result.kind = "ok" =>
                  ResolutionNamed(last'.result.val) = last.arg ]_vars

(* C7: a validating setter (data_rate, resolution, full_scale, the two     *)
(* threshold enables) called with a value outside its allowed set raises   *)
(* ValueError, issues no bus transaction and leaves every register and     *)
(* the cached scale as they were; so no step gives the data-rate field a   *)
(* new code outside 0..8 or the resolution field the new pattern 0b110.    *)
C7_SettersValidateBeforeWriting ==
    [][ /\ (/\ inst = "live"
            /\ \/ last'.op = "data_rate_set" /\ last'.arg \notin 0 .. 8
               \/ last'.op = "resolution_set" /\ last'.arg \notin {0, 1, 2, 3, 4, 5, 7}
               \/ last'.op = "full_scale_set" /\ last'.arg \notin {0, 1}
               \/ last'.op = "high_threshold_enabled_set" /\ last'.arg \notin {0, 1}
               \/ last'.op = "low_threshold_enabled_set" /\ last'.arg \notin {0, 1}) =>
             /\ last'.result.kind = "ValueError"
             /\ last'.bus = <<>>
             /\ regs' = regs
             /\ pressure_scale' = pressure_scale
        /\ DataRateField(regs') # DataRateField(regs) =>
             DataRateField(regs') \in 0 .. 8
        /\ ResolutionField(regs') # ResolutionField(regs) =>
             ResolutionField(regs') # 6 ]_vars

C7_Witness ==
    /\ last.op = "resolution_set"
    /\ last.arg = 6
    /\ last.result.kind = "ValueError"
    /\ ResolutionField(regs) = 7
    /\ DataRateField(regs) = 8

(* C8: a pressure_threshold get returns the raw threshold register divided *)
(* by 8 when the device's full-scale bit is 1 and by 16 when it is 0, also *)
(* right after full_scale was set to extended; a pressure_threshold set    *)
(* stores the value times the divisor of the mode at the time of the set   *)
(* (low 16 bits), never times the pressure scale.                          *)
C8_ThresholdDivisorFollowsMode ==
    [][ /\ (inst = "live" /\ last'.op = "pressure_threshold_get"
                /\ last'.result.kind = "ok") =>
             LET d == IF FullScaleBit(regs) = 1 THEN 8 ELSE 16 IN
             /\ last'.result.val.den > 0
             /\ last'.result.val.num * d = ThresholdRaw(regs) * last'.result.val.den
        /\ (/\ last.op = "full_scale_set" /\ last.arg = 1 /\ last.result.kind = "ok"
            /\ last'.op = "pressure_threshold_get" /\ last'.result.kind = "ok") =>
             last'.result.val.num * 8 = ThresholdRaw(regs) * last'.result.val.den
        /\ (inst = "live" /\ last'.op = "pressure_threshold_set"
                /\ last'.result.kind = "ok") =>
             LET d == IF FullScaleBit(regs) = 1 THEN 8 ELSE 16
                 t == last'.arg IN
             /\ (t.num * d) % t.den = 0
             /\ ThresholdRaw(regs') = ((t.num * d) \div t.den) % 65536
             /\ FullScaleBit(regs') = FullScaleBit(regs) ]_vars

C8_Witness ==
    /\ last.op = "pressure_threshold_get"
    /\ FullScaleBit(regs) = 1
    /\ pressure_scale = 2048
    /\ ThresholdRaw(regs) = 160
    /\ last.result = Ok([num |-> 20, den |-> 1])

(* C9: for a threshold t and mode divisor d with t*d an integer in         *)
(* 0..65535, a pressure_threshold set of t writes t*d to THS_P_L/THS_P_H,  *)
(* low byte first, in one write at 0x0C, and a get that follows it         *)
(* returns t (e.g. 10.0 hPa in normal mode: raw 160, read back 10.0).      *)
(* Violated: the setter hands the product to the "<H" packer as it is, and *)
(* the product of a float threshold is a float, which the packer refuses;  *)
(* only int thresholds are written.                                        *)
C9_ThresholdRoundTrip ==
    [][ /\ (inst = "live" /\ last'.op = "pressure_threshold_set") =>
             LET d == IF FullScaleBit(regs) = 1 THEN 8 ELSE 16
                 t == last'.arg
                 fits == (t.num * d) % t.den = 0
                            /\ (t.num * d) \div t.den \in 0 .. 65535
                 raw == (t.num * d) \div t.den IN
             fits =>
               /\ last'.result.kind \in {"ok", "OSError"}
               /\ BusOk(last') => last'.result.kind = "ok"
               /\ last'.result.kind = "ok" =>
                    /\ regs'[REG_THS_P_L] = raw % 256
                    /\ regs'[REG_THS_P_H] = raw \div 256
                    /\ \E i \in Writes(last') :
                         /\ last'.bus[i].addr = 12
                         /\ last'.bus[i].data = <<raw % 256, raw \div 256>>
                    /\ Cardinality(Writes(last')) = 1
        /\ (/\ last.op = "pressure_threshold_set"
            /\ last.result.kind = "ok"
            /\ last'.op = "pressure_threshold_get") =>
             /\ BusOk(last') => last'.result.kind = "ok"
             /\ LET d == IF FullScaleBit(regs) = 1 THEN 8 ELSE 16
                    t == last.arg IN
                (/\ last'.result.kind = "ok"
                 /\ (t.num * d) % t.den = 0
                 /\ (t.num * d) \div t.den \in 0 .. 65535) =>
                  last'.result.val.num * t.den = t.num * last'.result.val.den ]_vars

(* C10: a pressure get decodes the 24-bit sample r as two's complement     *)
(* (r below 2^23, r - 2^24 from 2^23 on) and returns it divided by the     *)
(* current pressure scale, 4096 when the device is in normal mode          *)
(* (full-scale bit 0) and 2048 when it is in extended mode (bit 1); the    *)
(* read changes neither the registers nor the cached scale.                *)
(* Violated: the getter divides by the cached _pressure_scale, which       *)
(* __init__ sets to 4096 whatever the device's bit is and which a failed   *)
(* full_scale write leaves changed, so the divisor can be that of the      *)
(* other mode.                                                             *)
C10_PressureDecode ==
    [][ (inst = "live" /\ last'.op = "pressure_get") =>
          LET r == last'.arg[1] + 256 * last'.arg[2] + 65536 * last'.arg[3]
              signed == IF r < 8388608 THEN r ELSE r - 16777216
              scale == IF FullScaleBit(regs) = 1 THEN 2048 ELSE 4096
              v == last'.result.val IN
          /\ regs' = regs
          /\ pressure_scale' = pressure_scale
          /\ BusOk(last') => last'.result.kind = "ok"
          /\ last'.result.kind = "ok" =>
               /\ v.den > 0
               /\ scale % v.den = 0
               /\ v.num * (scale \div v.den) = signed
               /\ (r = 1 /\ scale = 4096) => v = [num |-> 1, den |-> 4096]
               /\ (r = 4096 /\ scale = 4096) => v = [num |-> 1, den |-> 1]
               /\ (r = 16777215 /\ scale = 2048) => v = [num |-> -1, den |-> 2048]
               /\ (r = 8388608 /\ scale = 4096) => v = [num |-> -2048, den |-> 1] ]_vars

====
